---- MODULE Spec2Model ----
(***************************************************************************)
(* Currency exchange backend (src/app.ts): the shared currencyCache, the   *)
(* updateCache refresh policy, the request handlers that read the cache    *)
(* and the in-memory conversion history store.                             *)
(*                                                                         *)
(* Scheduling: Node runs every handler to its next await of an upstream    *)
(* fetch without interruption; requests interleave only at those awaits.   *)
(* An action is therefore one run of a handler from one suspension point   *)
(* to the next (or to its response).                                       *)
(***************************************************************************)
EXTENDS Integers, Sequences, FiniteSets, TLC

\* ---------------------------------------------------------------- bounds
NumReqs == 2          \* requests that can be in flight together
MaxRequests == 3      \* requests received in one behaviour
MaxTicks == 1         \* clock advances in one behaviour

\* ------------------------------------------------------------- constants
CACHE_EXPIRATION == 5 * 60 * 1000

Reqs == 1..NumReqs

\* null of a field that holds an object / a string / a number
Null == [kind |-> "null"]
NullStr == "<null>"
NullTime == -1

Pending == [tag |-> "pending"]
NoFetch == [tag |-> "none"]
NoResp == [tag |-> "noresp"]
NoCall == [kind |-> "none"]

\* the provider's data: the /currencies payload and the /latest payload for
\* a base, each tagged with the updateCache call (generation) that fetched it
Codes == {"USD", "EUR", "GBP", "DKK"}
Bases == {"USD", "EUR"}
CurrenciesData(g) == [kind |-> "object", of |-> "currencies", gen |-> g]
RatesData(b, g) == [kind |-> "object", of |-> "rates", base |-> b, gen |-> g]


\* ------------------------------------------------------------ JS values
\* A Number is NaN, an infinity, or (-1)^neg * m * 2^e with m = 0 or
\* 2^(Precision-1) <= m < 2^Precision.  IEEE doubles carry 53 significand
\* bits; the model carries Precision bits and rounds to nearest, ties to
\* even, exactly as the double operations do.
Precision == 8
EMax == 1024          \* doubles overflow to Infinity at 2^1024
EMin == -1074         \* and underflow to 0 below 2^-1074 (subnormals not modelled)
MaxDecimalExp == 309  \* a decimal literal of 310 or more digits is above 2^1024

NaN == [kind |-> "nan"]
Inf(neg) == [kind |-> "inf", neg |-> neg]
Num(neg, m, e) == [kind |-> "num", neg |-> neg, m |-> m, e |-> e]
Zero(neg) == Num(neg, 0, 0)
Undefined == [kind |-> "undefined"]
Function == [kind |-> "function"]
Object == [kind |-> "object"]

RECURSIVE Pow(_, _)
Pow(b, n) == IF n = 0 THEN 1 ELSE b * Pow(b, n - 1)

\* the significands m of the nonzero Numbers: MinSig <= m < MaxSig
MaxSig == Pow(2, Precision)
MinSig == Pow(2, Precision - 1)

\* (num / den) * 2^e rounded to a Number; num >= 0, den > 0
RECURSIVE RoundRatio(_, _, _, _)
RoundRatio(neg, num, den, e) ==
  IF num = 0 THEN Zero(neg)
  ELSE IF num < den * MaxSig THEN RoundRatio(neg, 2 * num, den, e - 1)
  ELSE IF num >= den * 2 * MaxSig THEN RoundRatio(neg, num, 2 * den, e + 1)
  ELSE LET q == num \div den
           sticky == (num % den) # 0
           half == q % 2 = 1
           m0 == q \div 2
           up == half /\ (sticky \/ m0 % 2 = 1)
           m1 == IF up THEN m0 + 1 ELSE m0
           m == IF m1 = MaxSig THEN MinSig ELSE m1
           ex == IF m1 = MaxSig THEN e + 2 ELSE e + 1
       IN IF ex + Precision > EMax THEN Inf(neg)
          ELSE IF ex + Precision - 1 < EMin THEN Zero(neg)
          ELSE Num(neg, m, ex)

\* ToNumber of a value used as an operand of * or /
ToNumber(v) == IF v.kind \in {"num", "inf", "nan"} THEN v ELSE NaN

IsZero(a) == a.kind = "num" /\ a.m = 0

\* a * b
Mul(x, y) ==
  LET a == ToNumber(x)
      b == ToNumber(y)
  IN IF a.kind = "nan" \/ b.kind = "nan" THEN NaN
     ELSE IF a.kind = "inf" \/ b.kind = "inf"
          THEN IF IsZero(a) \/ IsZero(b) THEN NaN ELSE Inf(a.neg # b.neg)
     ELSE RoundRatio(a.neg # b.neg, a.m * b.m, 1, a.e + b.e)

\* a / b
Div(x, y) ==
  LET a == ToNumber(x)
      b == ToNumber(y)
  IN IF a.kind = "nan" \/ b.kind = "nan" THEN NaN
     ELSE IF a.kind = "inf" THEN IF b.kind = "inf" THEN NaN ELSE Inf(a.neg # b.neg)
     ELSE IF b.kind = "inf" THEN Zero(a.neg # b.neg)
     ELSE IF IsZero(b) THEN IF IsZero(a) THEN NaN ELSE Inf(a.neg # b.neg)
     ELSE RoundRatio(a.neg # b.neg, a.m, b.m, a.e - b.e)

\* the literal 1
One == Num(FALSE, MinSig, 1 - Precision)

\* isNaN(v)
isNaN(v) == ToNumber(v).kind = "nan"

\* !v
Falsy(v) == v.kind \in {"undefined", "null", "nan"} \/ IsZero(v)

\* the value of the decimal literal (-1)^neg * d * 10^x
RECURSIVE DecimalDigits(_)
DecimalDigits(d) == IF d < 10 THEN 1 ELSE 1 + DecimalDigits(d \div 10)

FromDecimal(neg, d, x) ==
  IF d = 0 THEN Zero(neg)
  ELSE IF DecimalDigits(d) + x > MaxDecimalExp THEN Inf(neg)
  ELSE IF x >= 0 THEN RoundRatio(neg, d * Pow(10, x), 1, 0)
  ELSE RoundRatio(neg, d, Pow(10, 0 - x), 0)

\* ------------------------------------------------------------ parseFloat
\* A string is a sequence of one-character strings.
DigitChars == <<"0", "1", "2", "3", "4", "5", "6", "7", "8", "9">>
IsDigit(ch) == \E i \in 1..10 : DigitChars[i] = ch
DigitVal(ch) == (CHOOSE i \in 1..10 : DigitChars[i] = ch) - 1
WhiteSpace == {" "}
InfinityText == <<"I", "n", "f", "i", "n", "i", "t", "y">>

RECURSIVE SkipWhite(_, _)
SkipWhite(s, i) ==
  IF i <= Len(s) /\ s[i] \in WhiteSpace THEN SkipWhite(s, i + 1) ELSE i

\* number of digits of s from position i on
RECURSIVE DigitRun(_, _)
DigitRun(s, i) ==
  IF i <= Len(s) /\ IsDigit(s[i]) THEN 1 + DigitRun(s, i + 1) ELSE 0

\* value of the n digits of s that start at position i, continuing from acc
RECURSIVE DigitsValue(_, _, _, _)
DigitsValue(s, i, n, acc) ==
  IF n = 0 THEN acc ELSE DigitsValue(s, i + 1, n - 1, 10 * acc + DigitVal(s[i]))

StartsWith(s, i, t) ==
  /\ Len(s) >= i + Len(t) - 1
  /\ \A k \in 1..Len(t) : s[i + k - 1] = t[k]

\* the character of s at position i is one of chars
HasChar(s, i, chars) == i <= Len(s) /\ s[i] \in chars

\* the literal's value: d * 10^(-nf), scaled by the exponent part that
\* starts at i3, if it has digits
ParseExponentDigits(s, neg, d, nf, eneg, i3) ==
  LET ex == DigitsValue(s, i3, DigitRun(s, i3), 0)
  IN FromDecimal(neg, d, (IF eneg THEN 0 - ex ELSE ex) - nf)

\* the exponent part, if one starts at i2
ParseExponent(s, neg, d, nf, i2) ==
  IF HasChar(s, i2, {"e", "E"})
  THEN ParseExponentDigits(s, neg, d, nf, HasChar(s, i2 + 1, {"-"}),
                           IF HasChar(s, i2 + 1, {"+", "-"}) THEN i2 + 2 ELSE i2 + 1)
  ELSE FromDecimal(neg, d, 0 - nf)

\* ni integer digits from i1, then nf fraction digits after a dot
ParseMantissa(s, neg, i1, ni, nf) ==
  IF ni + nf = 0 THEN NaN
  ELSE ParseExponent(s, neg,
                     DigitsValue(s, i1 + ni + 1, nf, DigitsValue(s, i1, ni, 0)),
                     nf,
                     IF HasChar(s, i1 + ni, {"."}) THEN i1 + ni + 1 + nf ELSE i1 + ni)

\* the digits before and after the dot
ParseDigits(s, neg, i1, ni) ==
  ParseMantissa(s, neg, i1, ni,
                IF HasChar(s, i1 + ni, {"."}) THEN DigitRun(s, i1 + ni + 1) ELSE 0)

\* the unsigned part, from position i1
ParseUnsigned(s, neg, i1) ==
  IF StartsWith(s, i1, InfinityText) THEN Inf(neg)
  ELSE ParseDigits(s, neg, i1, DigitRun(s, i1))

\* the optional sign at position i0
ParseSigned(s, i0) ==
  ParseUnsigned(s, HasChar(s, i0, {"-"}),
                IF HasChar(s, i0, {"+", "-"}) THEN i0 + 1 ELSE i0)

\* parseFloat(s): the longest prefix of the trimmed string that is a
\* StrDecimalLiteral; NaN when there is none
parseFloat(s) == ParseSigned(s, SkipWhite(s, 1))

\* ------------------------------------------------------ property lookup
\* obj[key] on a plain object: an own property, else a property inherited
\* from Object.prototype, else undefined
ObjectPrototypeKeys == {"constructor", "toString", "valueOf", "hasOwnProperty",
                        "__proto__"}
Inherited(key) == IF key = "__proto__" THEN Object ELSE Function

\* the provider's rate of a code against a base, as [d, x] for d * 10^x
RateTable ==
  [b \in Bases |->
     IF b = "USD" THEN [USD |-> <<1, 0>>, EUR |-> <<92, -2>>, GBP |-> <<79, -2>>,
                        DKK |-> <<682, -2>>]
     ELSE [USD |-> <<109, -2>>, EUR |-> <<1, 0>>, GBP |-> <<86, -2>>,
           DKK |-> <<746, -2>>]]

OwnKeys(obj) == IF obj.kind = "object" /\ obj.of \in {"currencies", "rates"}
                THEN Codes ELSE {}

OwnValue(obj, key) ==
  IF obj.of = "currencies" THEN Object
  ELSE FromDecimal(FALSE, RateTable[obj.base][key][1], RateTable[obj.base][key][2])

Lookup(obj, key) ==
  IF key \in OwnKeys(obj) THEN OwnValue(obj, key)
  ELSE IF key \in ObjectPrototypeKeys THEN Inherited(key)
  ELSE Undefined

\* ------------------------------------------------------------- responses
NoBody == [tag |-> "none"]
Ok(body) == [status |-> 200, success |-> TRUE, error |-> "", body |-> body]
Fail(status, msg) == [status |-> status, success |-> FALSE, error |-> msg,
                      body |-> NoBody]

UsesCache(c) == c.kind \in {"currencies", "rates", "convert", "bulk"}

\* a parameter the request does not carry
UndefinedStr == "<undefined>"

\* the argument the handler passes to updateCache: const { base = 'USD' } =
\* req.query for /api/rates, 'USD' for the others
UpdateBase(c) == IF c.kind = "rates" /\ c.base # UndefinedStr THEN c.base ELSE "USD"

\* the status of the handler's catch block
CatchStatus(c) == IF c.kind \in {"convert", "bulk"} THEN 400 ELSE 500

\* the message of what the handler throws before it calls updateCache
\* ("" = nothing); the bulk message is cut at its first sentence
PreError(c) ==
  IF c.kind = "convert" /\ isNaN(parseFloat(c.amount)) THEN "Amount must be a number"
  ELSE IF c.kind = "bulk" /\ (c.from = "" \/ ~c.hasAmounts) THEN "Invalid request format"
  ELSE ""

\* results[key] = v
SetProp(obj, key, v) ==
  IF key = "__proto__" THEN obj
  ELSE [k \in DOMAIN obj \cup {key} |-> IF k = key THEN v ELSE obj[k]]

ErrorEntry(msg) == [tag |-> "error", error |-> msg]

\* one iteration of the bulk loop
BulkEntry(currencies, rates, fromToUsd, currency, amount) ==
  IF Falsy(Lookup(currencies, currency)) THEN ErrorEntry("Invalid currency code")
  ELSE LET numericAmount == parseFloat(amount)
       IN IF isNaN(numericAmount) THEN ErrorEntry("Amount must be a number")
          ELSE LET usdToCurrency == IF currency = "USD" THEN One
                                    ELSE Lookup(rates, currency)
                   rate == Mul(fromToUsd, usdToCurrency)
               IN [tag |-> "conversion", amount |-> numericAmount, rate |-> rate,
                   result |-> Mul(numericAmount, rate)]

RECURSIVE BulkLoop(_, _, _, _, _)
BulkLoop(currencies, rates, fromToUsd, entries, results) ==
  IF entries = <<>> THEN results
  ELSE BulkLoop(currencies, rates, fromToUsd, Tail(entries),
                SetProp(results, Head(entries)[1],
                        BulkEntry(currencies, rates, fromToUsd,
                                  Head(entries)[1], Head(entries)[2])))

\* the handler from the return of updateCache to its response, reading the
\* cache object obj; usdRates is the handler's local
AfterUpdate(c, obj) ==
  CASE c.kind = "currencies" ->
         [resp |-> Ok([tag |-> "currencies", currencies |-> obj.currencies]),
          usdRates |-> Null]
    [] c.kind = "rates" ->
         [resp |-> Ok([tag |-> "rates", base |-> obj.baseCurrency, rates |-> obj.rates]),
          usdRates |-> Null]
    [] c.kind = "convert" ->
         LET numericAmount == parseFloat(c.amount)
             fromToUsd == IF c.from = "USD" THEN One
                          ELSE Div(One, Lookup(obj.rates, c.from))
             usdToTo == IF c.to = "USD" THEN One ELSE Lookup(obj.rates, c.to)
             rate == Mul(fromToUsd, usdToTo)
         IN [resp |-> IF Falsy(Lookup(obj.currencies, c.from))
                         \/ Falsy(Lookup(obj.currencies, c.to))
                      THEN Fail(400, "Invalid currency code")
                      ELSE Ok([tag |-> "conversion", from |-> c.from, to |-> c.to,
                               amount |-> numericAmount, rate |-> rate,
                               result |-> Mul(numericAmount, rate)]),
             usdRates |-> obj.rates]
    [] c.kind = "bulk" ->
         LET fromToUsd == IF c.from = "USD" THEN One
                          ELSE Div(One, Lookup(obj.rates, c.from))
         IN [resp |-> IF Falsy(Lookup(obj.currencies, c.from))
                      THEN Fail(400, "Invalid source currency")  \* ": " + from
                      ELSE Ok([tag |-> "bulk", from |-> c.from,
                               results |-> BulkLoop(obj.currencies, obj.rates, fromToUsd,
                                                    c.amounts, <<>>)]),
             usdRates |-> obj.rates]

\* ------------------------------------------------------------ updateCache
\* IsCold with the window compared by >= instead of >
IsColdAtWindow(obj, t) ==
  \/ Falsy(obj.currencies)
  \/ obj.lastUpdated \in {NullTime, 0}
  \/ (t - obj.lastUpdated) >= CACHE_EXPIRATION

\* IsCold without the comparison of the age with the window
IsColdIgnoresAge(obj, t) ==
  \/ Falsy(obj.currencies)
  \/ obj.lastUpdated \in {NullTime, 0}

\* the first branch condition of updateCache
IsCold(obj, t) ==
  \/ Falsy(obj.currencies)
  \/ obj.lastUpdated \in {NullTime, 0}
  \/ (t - obj.lastUpdated) > CACHE_EXPIRATION

\* the else-if condition of updateCache
IsWrongBase(obj, b) == obj.baseCurrency # b

\* let currencyCache = { currencies: null, rates: null, baseCurrency: null,
\*                       lastUpdated: null }
EmptyCache == [currencies |-> Null, rates |-> Null, baseCurrency |-> NullStr,
               lastUpdated |-> NullTime]

\* const conversionHistoryStore = {}
EmptyStore == [u \in {} |-> <<>>]

\* no request was answered
NoLast == [call |-> NoCall, resp |-> NoResp, usdRates |-> Null, base |-> NullStr,
           branch |-> "none", failed |-> "none"]

VARIABLES
  clock,            \* the time the clock was last read at
  ticks,            \* number of readings that found the clock advanced
  heap,             \* the CurrencyCache objects still referenced, by identity
  currencyCache,    \* the object the variable currencyCache refers to
  stamp,            \* per object: the call that last wrote baseCurrency/lastUpdated
  pc,               \* per request: idle, awaitAll, awaitRates
  call,             \* per request: the request being served
  callGen,          \* per request: sequence number of the request
  now,              \* per request: updateCache's local `now`
  lref,             \* per request: the object `currencyCache.rates = await` writes to
  curFetch,         \* per request: state of its fetchAllCurrencies()
  rateFetch,        \* per request: state of its fetchAllRates()
  last,             \* the request the latest step answered, if it answered one:
                    \* its response, its local usdRates, the baseCurrency its
                    \* handler found in the cache, the branch its updateCache took
                    \* and the fetch of it that failed
  nreqs,            \* requests received so far
  conversionHistoryStore

cacheVars == <<heap, currencyCache, stamp>>
fetchVars == <<curFetch, rateFetch>>
reqVars == <<pc, call, callGen, now, lref>>
timeVars == <<clock, ticks>>
vars == <<clock, ticks, heap, currencyCache, stamp, pc, call, callGen, now, lref,
          curFetch, rateFetch, last, nreqs, conversionHistoryStore>>

Cache == heap[currencyCache]

\* Object identities.  At most one object is the current cache and one more
\* is held by each suspended `currencyCache.rates = await ...`.
ObjIds == 1..(NumReqs + 1)

\* the objects the program can still reach: the current cache object and the
\* assignment targets held across an await, except that of request r
Live(cc, r) == {cc} \cup {lref[x] : x \in {y \in Reqs \ {r} : pc[y] = "awaitRates"}}

\* identity of a newly allocated object
NewObj == CHOOSE i \in ObjIds \ DOMAIN heap :
            \A j \in ObjIds \ DOMAIN heap : i <= j

\* unreachable objects are garbage
Collect(h, live) == [i \in live |-> h[i]]

Init ==
  /\ clock = 1
  /\ ticks = 0
  /\ heap = [i \in {1} |-> EmptyCache]
  /\ currencyCache = 1
  /\ stamp = [i \in {1} |-> 0]
  /\ pc = [r \in Reqs |-> "idle"]
  /\ call = [r \in Reqs |-> NoCall]
  /\ callGen = [r \in Reqs |-> 0]
  /\ now = [r \in Reqs |-> 0]
  /\ lref = [r \in Reqs |-> 0]
  /\ curFetch = [r \in Reqs |-> NoFetch]
  /\ rateFetch = [r \in Reqs |-> NoFetch]
  /\ last = NoLast
  /\ nreqs = 0
  /\ conversionHistoryStore = EmptyStore

\* ------------------------------------------------------------- the clock
\* Date.now() returns t: the time of the previous reading or a later one
DateNow(t) ==
  /\ t >= clock
  /\ t # clock => ticks < MaxTicks
  /\ clock' = t
  /\ ticks' = IF t = clock THEN ticks ELSE ticks + 1

\* ---------------------------------------------------------- the handlers
\* a request arrives; r names it while it is in flight
Arrives(r) ==
  /\ pc[r] = "idle"
  /\ \A x \in Reqs : pc[x] = "idle" => r <= x
  /\ nreqs < MaxRequests
  /\ nreqs' = nreqs + 1

\* the handler of request c answers at once, without a suspension
AnswersAtOnce(c, response, usd, base, branch) ==
  /\ last' = [call |-> c, resp |-> response, usdRates |-> usd, base |-> base,
              branch |-> branch, failed |-> "none"]
  /\ UNCHANGED <<cacheVars, reqVars, fetchVars>>

\* the handler throws before updateCache is called
RequestRejected(r, c) ==
  /\ Arrives(r)
  /\ UsesCache(c)
  /\ PreError(c) # ""
  /\ AnswersAtOnce(c, Fail(CatchStatus(c), PreError(c)), Null, NullStr, "none")
  /\ UNCHANGED <<timeVars, conversionHistoryStore>>

\* updateCache takes its first branch: both fetches are issued
RequestColdRefresh(r, c, t) ==
  /\ Arrives(r)
  /\ DateNow(t)
  /\ UsesCache(c)
  /\ PreError(c) = ""
  /\ IsCold(Cache, t)
  /\ pc' = [pc EXCEPT ![r] = "awaitAll"]
  /\ call' = [call EXCEPT ![r] = c]
  /\ callGen' = [callGen EXCEPT ![r] = nreqs + 1]
  /\ now' = [now EXCEPT ![r] = t]
  /\ curFetch' = [curFetch EXCEPT ![r] = Pending]
  /\ rateFetch' = [rateFetch EXCEPT ![r] = Pending]
  /\ last' = NoLast
  /\ UNCHANGED <<cacheVars, lref, conversionHistoryStore>>

\* updateCache takes its second branch: the target of `currencyCache.rates =`
\* is evaluated, then the rate fetch is issued
RequestBaseSwitch(r, c, t) ==
  /\ Arrives(r)
  /\ DateNow(t)
  /\ UsesCache(c)
  /\ PreError(c) = ""
  /\ ~IsCold(Cache, t)
  /\ IsWrongBase(Cache, UpdateBase(c))
  /\ pc' = [pc EXCEPT ![r] = "awaitRates"]
  /\ call' = [call EXCEPT ![r] = c]
  /\ callGen' = [callGen EXCEPT ![r] = nreqs + 1]
  /\ now' = [now EXCEPT ![r] = t]
  /\ lref' = [lref EXCEPT ![r] = currencyCache]
  /\ rateFetch' = [rateFetch EXCEPT ![r] = Pending]
  /\ last' = NoLast
  /\ UNCHANGED <<cacheVars, curFetch, conversionHistoryStore>>

\* RequestCacheHit where a hit also renews lastUpdated
RequestCacheHitTouches(r, c, t) ==
  /\ Arrives(r)
  /\ DateNow(t)
  /\ UsesCache(c)
  /\ PreError(c) = ""
  /\ ~IsCold(Cache, t)
  /\ ~IsWrongBase(Cache, UpdateBase(c))
  /\ last' = [call |-> c, resp |-> AfterUpdate(c, Cache).resp,
              usdRates |-> AfterUpdate(c, Cache).usdRates,
              base |-> Cache.baseCurrency, branch |-> "hit", failed |-> "none"]
  /\ heap' = [heap EXCEPT ![currencyCache].lastUpdated = t]
  /\ UNCHANGED <<currencyCache, stamp, reqVars, fetchVars, conversionHistoryStore>>

\* updateCache takes neither branch and the handler answers from the cache
RequestCacheHit(r, c, t) ==
  /\ Arrives(r)
  /\ DateNow(t)
  /\ UsesCache(c)
  /\ PreError(c) = ""
  /\ ~IsCold(Cache, t)
  /\ ~IsWrongBase(Cache, UpdateBase(c))
  /\ LET out == AfterUpdate(c, Cache)
     IN AnswersAtOnce(c, out.resp, out.usdRates, Cache.baseCurrency, "hit")
  /\ UNCHANGED conversionHistoryStore

\* request r leaves its suspension and ends
Ends(r) ==
  /\ pc' = [pc EXCEPT ![r] = "idle"]
  /\ call' = [call EXCEPT ![r] = NoCall]
  /\ callGen' = [callGen EXCEPT ![r] = 0]
  /\ now' = [now EXCEPT ![r] = 0]
  /\ lref' = [lref EXCEPT ![r] = 0]
  /\ curFetch' = [curFetch EXCEPT ![r] = NoFetch]
  /\ rateFetch' = [rateFetch EXCEPT ![r] = NoFetch]
  /\ UNCHANGED <<timeVars, nreqs, conversionHistoryStore>>

\* Answer where the handler converts with the rates the cache held before
\* this call's write
AnswerWithEarlierRates(r, branch) ==
  /\ LET out == AfterUpdate(call[r], [heap'[currencyCache'] EXCEPT
                                        !.rates = heap[currencyCache].rates])
     IN last' = [call |-> call[r], resp |-> out.resp, usdRates |-> out.usdRates,
                 base |-> heap'[currencyCache'].baseCurrency, branch |-> branch,
                 failed |-> "none"]
  /\ Ends(r)

\* updateCache returned to the handler of r, which reads the cache and answers
Answer(r, branch) ==
  /\ LET out == AfterUpdate(call[r], heap'[currencyCache'])
     IN last' = [call |-> call[r], resp |-> out.resp, usdRates |-> out.usdRates,
                 base |-> heap'[currencyCache'].baseCurrency, branch |-> branch,
                 failed |-> "none"]
  /\ Ends(r)

\* Promise.all resolved: currencyCache = { currencies, rates, lastUpdated: now,
\* baseCurrency }
CompleteFull(r, currencies, rates) ==
  /\ LET new == NewObj
         obj == [currencies |-> currencies, rates |-> rates,
                 lastUpdated |-> now[r], baseCurrency |-> UpdateBase(call[r])]
         live == Live(new, r)
     IN /\ heap' = [i \in live |-> IF i = new THEN obj ELSE heap[i]]
        /\ stamp' = [i \in live |-> IF i = new THEN callGen[r] ELSE stamp[i]]
        /\ currencyCache' = new
  /\ Answer(r, "cold")

\* the awaited rate fetch resolved: the rates go to the object evaluated
\* before the await, baseCurrency and lastUpdated to the current object
CompleteSwitch(r, rates) ==
  /\ heap' = Collect([[heap EXCEPT ![lref[r]].rates = rates]
                         EXCEPT ![currencyCache].baseCurrency = UpdateBase(call[r]),
                                ![currencyCache].lastUpdated = now[r]],
                     Live(currencyCache, r))
  /\ stamp' = Collect([stamp EXCEPT ![currencyCache] = callGen[r]],
                      Live(currencyCache, r))
  /\ UNCHANGED currencyCache
  /\ Answer(r, "switch")

\* the provider answers GET /currencies of request r
FetchCurrenciesResolves(r) ==
  /\ pc[r] = "awaitAll"
  /\ curFetch[r] = Pending
  /\ IF rateFetch[r] = Pending
     THEN /\ curFetch' = [curFetch EXCEPT ![r] = CurrenciesData(callGen[r])]
          /\ last' = NoLast
          /\ UNCHANGED <<timeVars, cacheVars, reqVars, rateFetch, nreqs,
                         conversionHistoryStore>>
     ELSE CompleteFull(r, CurrenciesData(callGen[r]), rateFetch[r])

\* the provider answers GET /latest of request r
FetchRatesResolves(r) ==
  /\ pc[r] \in {"awaitAll", "awaitRates"}
  /\ rateFetch[r] = Pending
  /\ LET rates == RatesData(UpdateBase(call[r]), callGen[r])
     IN IF pc[r] = "awaitRates" THEN CompleteSwitch(r, rates)
        ELSE IF curFetch[r] = Pending
        THEN /\ rateFetch' = [rateFetch EXCEPT ![r] = rates]
             /\ last' = NoLast
             /\ UNCHANGED <<timeVars, cacheVars, reqVars, curFetch, nreqs,
                            conversionHistoryStore>>
        ELSE CompleteFull(r, curFetch[r], rates)

\* FetchFailed where baseCurrency is assigned before the fetch is awaited
FetchFailedWritesBase(r, which) ==
  /\ last' = [call |-> call[r],
              resp |-> Fail(CatchStatus(call[r]),
                            IF which = "currencies" THEN "Failed to fetch currency list"
                            ELSE "Failed to fetch exchange rates"),
              usdRates |-> Null, base |-> NullStr,
              branch |-> IF pc[r] = "awaitAll" THEN "cold" ELSE "switch",
              failed |-> which]
  /\ heap' = Collect([heap EXCEPT ![currencyCache].baseCurrency = UpdateBase(call[r])],
                     Live(currencyCache, r))
  /\ stamp' = Collect(stamp, Live(currencyCache, r))
  /\ UNCHANGED currencyCache
  /\ Ends(r)

\* FetchFailed where the error is swallowed and the handler never resumes
FetchFailedUnanswered(r, which) ==
  /\ curFetch' = [curFetch EXCEPT ![r] = NoFetch]
  /\ rateFetch' = [rateFetch EXCEPT ![r] = NoFetch]
  /\ last' = NoLast
  /\ UNCHANGED <<timeVars, cacheVars, reqVars, nreqs, conversionHistoryStore>>

\* a fetch threw: updateCache rethrows and the handler's catch answers
FetchFailed(r, which) ==
  /\ last' = [call |-> call[r],
              resp |-> Fail(CatchStatus(call[r]),
                            IF which = "currencies" THEN "Failed to fetch currency list"
                            ELSE "Failed to fetch exchange rates"),
              usdRates |-> Null, base |-> NullStr,
              branch |-> IF pc[r] = "awaitAll" THEN "cold" ELSE "switch",
              failed |-> which]
  /\ heap' = Collect(heap, Live(currencyCache, r))
  /\ stamp' = Collect(stamp, Live(currencyCache, r))
  /\ UNCHANGED currencyCache
  /\ Ends(r)

FetchCurrenciesRejects(r) ==
  /\ pc[r] = "awaitAll"
  /\ curFetch[r] = Pending
  /\ FetchFailed(r, "currencies")

FetchRatesRejects(r) ==
  /\ pc[r] \in {"awaitAll", "awaitRates"}
  /\ rateFetch[r] = Pending
  /\ FetchFailed(r, "rates")

\* ----------------------------------------------------------- the history
HISTORY_LIMIT == 20

\* const { userId = 'anonymous' } = ...
UserIdOf(c) == IF c.userId = UndefinedStr THEN "anonymous" ELSE c.userId

\* Slice that keeps the whole list
SliceKeepsAll(list, n) == list

\* Slice that keeps the last n entries instead of the first n
SliceKeepsTail(list, n) ==
  SubSeq(list, IF Len(list) < n THEN 1 ELSE Len(list) - n + 1, Len(list))

\* list.slice(0, n)
Slice(list, n) == SubSeq(list, 1, IF Len(list) < n THEN Len(list) ELSE n)

\* an array value
Array(items) == [kind |-> "array", items |-> items]

\* conversionHistoryStore[userId]: the user's own list, else a property
\* inherited from Object.prototype, else undefined
HistoryOf(store, u) ==
  IF u \in DOMAIN store THEN Array(store[u])
  ELSE IF u \in ObjectPrototypeKeys THEN Inherited(u)
  ELSE Undefined

\* the body of POST /api/history: the record is stamped, put in front of the
\* user's list and the list is cut to its first 20; unshift throws on a
\* value that is no array
PostHistory(c, t) ==
  /\ DateNow(t)
  /\ LET u == UserIdOf(c)
         found == HistoryOf(conversionHistoryStore, u)
         old == IF Falsy(found) THEN <<>> ELSE found.items
         record == [conversion |-> c.conversion, timestamp |-> t]
     IN IF ~Falsy(found) /\ found.kind # "array"
        THEN /\ UNCHANGED conversionHistoryStore
             /\ AnswersAtOnce(c, Fail(500, "unshift is not a function"),
                              Null, NullStr, "none")
        ELSE /\ conversionHistoryStore' =
                  [k \in DOMAIN conversionHistoryStore \cup {u} |->
                     IF k = u THEN Slice(<<record>> \o old, HISTORY_LIMIT)
                     ELSE conversionHistoryStore[k]]
             /\ AnswersAtOnce(c, Ok(NoBody), Null, NullStr, "none")

\* the body of GET /api/history: conversionHistoryStore[userId] || []
GetHistory(c) ==
  /\ UNCHANGED <<timeVars, conversionHistoryStore>>
  /\ LET found == HistoryOf(conversionHistoryStore, UserIdOf(c))
     IN AnswersAtOnce(c, Ok([tag |-> "history",
                             history |-> IF Falsy(found) THEN Array(<<>>) ELSE found]),
                      Null, NullStr, "none")

\* DeleteHistory that empties the whole store
DeleteHistoryOfAll(c) ==
  /\ UNCHANGED timeVars
  /\ conversionHistoryStore' = EmptyStore
  /\ AnswersAtOnce(c, Ok(NoBody), Null, NullStr, "none")

\* the body of DELETE /api/history: delete removes an own property only
DeleteHistory(c) ==
  /\ UNCHANGED timeVars
  /\ conversionHistoryStore' =
       [k \in DOMAIN conversionHistoryStore \ {UserIdOf(c)} |-> conversionHistoryStore[k]]
  /\ AnswersAtOnce(c, Ok(NoBody), Null, NullStr, "none")

\* POST /api/history
HistoryAppend(r, c, t) ==
  /\ Arrives(r)
  /\ c.kind = "histAppend"
  /\ PostHistory(c, t)

\* GET /api/history
HistoryGet(r, c) ==
  /\ Arrives(r)
  /\ c.kind = "histGet"
  /\ GetHistory(c)

\* DELETE /api/history
HistoryClear(r, c) ==
  /\ Arrives(r)
  /\ c.kind = "histClear"
  /\ DeleteHistory(c)

\* ------------------------------------------------------------ the inputs
T10 == <<"1", "0">>
T5 == <<"5">>
Tabc == <<"a", "b", "c">>
T12abc == <<"1", "2", "a", "b", "c">>
T1e999 == <<"1", "e", "9", "9", "9">>
TNaN == <<"N", "a", "N">>
AmountTexts == {T10, Tabc, T12abc, InfinityText, T1e999, TNaN}

HistoryCalls ==
  {[kind |-> "histAppend", userId |-> "u1", conversion |-> "c1"],
   [kind |-> "histGet", userId |-> "u1"],
   [kind |-> "histClear", userId |-> "u1"]}

\* the readings Date.now() can return
Times == {clock, clock + CACHE_EXPIRATION, clock + CACHE_EXPIRATION + 1}

\* the requests of the concurrency specification
CacheCalls ==
  {[kind |-> "rates", base |-> "EUR"],
   [kind |-> "convert", from |-> "EUR", to |-> "GBP", amount |-> T10]}

Next ==
  \/ \E r \in Reqs, c \in CacheCalls, t \in Times :
       \/ RequestColdRefresh(r, c, t)
       \/ RequestBaseSwitch(r, c, t)
       \/ RequestCacheHit(r, c, t)
  \/ \E r \in Reqs :
       \/ FetchCurrenciesResolves(r)
       \/ FetchRatesResolves(r)
       \/ FetchCurrenciesRejects(r)
       \/ FetchRatesRejects(r)

Spec == Init /\ [][Next]_vars

\* the requests of the sequential specification: one request at a time
ConvertPairs ==
  {<<"USD", "GBP">>, <<"EUR", "GBP">>, <<"EUR", "USD">>, <<"ZZZ", "GBP">>,
   <<"EUR", "ZZZ">>, <<"constructor", "GBP">>,
   <<"USD", "USD">>, <<"EUR", "EUR">>, <<"DKK", "DKK">>}

ConvertCalls ==
  {[kind |-> "convert", from |-> p[1], to |-> p[2], amount |-> T10] : p \in ConvertPairs}
  \cup {[kind |-> "convert", from |-> "EUR", to |-> "GBP", amount |-> a] : a \in AmountTexts}
  \cup {[kind |-> "convert", from |-> "ZZZ", to |-> "GBP", amount |-> Tabc]}

BulkExample == <<<<"EUR", T10>>, <<"ZZZ", T5>>, <<"GBP", Tabc>>>>

BulkAmounts ==
  {<<>>,
   <<<<"EUR", T10>>>>,
   BulkExample,
   <<<<"ZZZ", T5>>, <<"EUR", T10>>>>,
   <<<<"constructor", T10>>>>,
   <<<<"GBP", InfinityText>>, <<"USD", T12abc>>>>}

BulkCalls ==
  {[kind |-> "bulk", from |-> "USD", hasAmounts |-> TRUE, amounts |-> m] :
     m \in BulkAmounts}
  \cup {[kind |-> "bulk", from |-> f, hasAmounts |-> TRUE, amounts |-> BulkExample] :
          f \in {"EUR", "ZZZ", "constructor", ""}}
  \cup {[kind |-> "bulk", from |-> "USD", hasAmounts |-> FALSE, amounts |-> <<>>]}

SeqCalls ==
  {[kind |-> "currencies"]}
  \cup {[kind |-> "rates", base |-> b] : b \in Bases \cup {UndefinedStr}}
  \cup ConvertCalls
  \cup BulkCalls

NextSeq ==
  \/ \E c \in SeqCalls : RequestRejected(1, c)
  \/ \E c \in SeqCalls, t \in Times :
       \/ RequestColdRefresh(1, c, t)
       \/ RequestBaseSwitch(1, c, t)
       \/ RequestCacheHit(1, c, t)
  \/ FetchCurrenciesResolves(1)
  \/ FetchRatesResolves(1)
  \/ FetchCurrenciesRejects(1)
  \/ FetchRatesRejects(1)
  \/ \E c \in HistoryCalls :
       \/ \E t \in Times : HistoryAppend(1, c, t)
       \/ HistoryGet(1, c)
       \/ HistoryClear(1, c)

SpecSeq == Init /\ [][NextSeq]_vars

\* ------------------------------------------------- the history in series
\* A long series of history requests.  The history handlers never suspend,
\* so a request is served whole before the next one is looked at.
MaxHistoryRequests == 26

HistoryArrives ==
  /\ nreqs < MaxHistoryRequests
  /\ nreqs' = nreqs + 1

\* the conversions of the series are numbered: each append carries the
\* number after that of the user's newest record
NextConversion(u) ==
  IF u \in DOMAIN conversionHistoryStore /\ conversionHistoryStore[u] # <<>>
  THEN conversionHistoryStore[u][1].conversion + 1
  ELSE 1

SeriesCalls ==
  {[kind |-> "histAppend", userId |-> "u1", conversion |-> NextConversion("u1")],
   [kind |-> "histGet", userId |-> "u1"],
   [kind |-> "histClear", userId |-> "u1"]}

\* the requests of other users, made among the first MaxRequests requests
OtherCalls ==
  {[kind |-> k, userId |-> u, conversion |-> 0] :
     k \in {"histAppend", "histGet", "histClear"},
     u \in {"u2", "constructor", UndefinedStr}}

SeriesAppend(c) ==
  /\ HistoryArrives
  /\ c.kind = "histAppend"
  /\ PostHistory(c, clock)

SeriesGet(c) ==
  /\ HistoryArrives
  /\ c.kind = "histGet"
  /\ GetHistory(c)

SeriesClear(c) ==
  /\ HistoryArrives
  /\ c.kind = "histClear"
  /\ DeleteHistory(c)

NextHistory ==
  \/ \E c \in SeriesCalls :
       \/ SeriesAppend(c)
       \/ SeriesGet(c)
       \/ SeriesClear(c)
  \/ \E c \in OtherCalls :
       \/ \E t \in Times : HistoryAppend(1, c, t)
       \/ HistoryGet(1, c)
       \/ HistoryClear(1, c)

SpecHistory == Init /\ [][NextHistory]_vars

\* ------------------------------------------- bulk requests, concurrently
\* a bulk request of three items and a request that makes the cache change
\* its base
BulkConcurrentCalls ==
  {[kind |-> "rates", base |-> "EUR"],
   [kind |-> "bulk", from |-> "USD", hasAmounts |-> TRUE, amounts |-> BulkExample]}

NextBulk ==
  \/ \E r \in Reqs, c \in BulkConcurrentCalls, t \in Times :
       \/ RequestColdRefresh(r, c, t)
       \/ RequestBaseSwitch(r, c, t)
       \/ RequestCacheHit(r, c, t)
  \/ \E r \in Reqs :
       \/ FetchCurrenciesResolves(r)
       \/ FetchRatesResolves(r)
       \/ FetchCurrenciesRejects(r)
       \/ FetchRatesRejects(r)

SpecBulk == Init /\ [][NextBulk]_vars

\* --------------------------------------------- every handler, concurrently
\* one request of every handler, and a conversion refused before
\* updateCache; the requests arrive within one reading of the clock
AllCalls ==
  {[kind |-> "currencies"],
   [kind |-> "rates", base |-> "EUR"],
   [kind |-> "convert", from |-> "EUR", to |-> "GBP", amount |-> T10],
   [kind |-> "convert", from |-> "EUR", to |-> "GBP", amount |-> Tabc],
   [kind |-> "bulk", from |-> "USD", hasAmounts |-> TRUE, amounts |-> BulkExample]}

NextAll ==
  \/ \E r \in Reqs, c \in AllCalls :
       \/ RequestRejected(r, c)
       \/ RequestColdRefresh(r, c, clock)
       \/ RequestBaseSwitch(r, c, clock)
       \/ RequestCacheHit(r, c, clock)
  \/ \E r \in Reqs, c \in HistoryCalls :
       \/ HistoryAppend(r, c, clock)
       \/ HistoryGet(r, c)
       \/ HistoryClear(r, c)
  \/ \E r \in Reqs :
       \/ FetchCurrenciesResolves(r)
       \/ FetchRatesResolves(r)
       \/ FetchCurrenciesRejects(r)
       \/ FetchRatesRejects(r)

\* every fetch a request awaits is answered by the provider or fails
FetchesSettle ==
  \A r \in Reqs :
    /\ WF_vars(FetchCurrenciesRejects(r) \/ FetchCurrenciesResolves(r))
    /\ WF_vars(FetchRatesRejects(r) \/ FetchRatesResolves(r))

SpecAll == Init /\ [][NextAll]_vars /\ FetchesSettle

\* ------------------------------------------------------------- the claims
\* the snapshot is populated and no older than the window at time t
Fresh(obj, t) ==
  /\ ~Falsy(obj.currencies)
  /\ obj.lastUpdated # NullTime
  /\ t - obj.lastUpdated <= CACHE_EXPIRATION

\* request r arrives / is answered in this step
Arriving(r) == pc[r] = "idle" /\ pc'[r] # "idle"
Leaving(r) == pc[r] # "idle" /\ pc'[r] = "idle"

\* C1: at any time at most one refresh (a call suspended in its currency-list
\* and/or rate fetch) is in flight; a call that arrives during a refresh
\* issues no fetch of its own.
C1_SingleFlight ==
  Cardinality({r \in Reqs : pc[r] \in {"awaitAll", "awaitRates"}}) <= 1

\* C2: in every reachable state the snapshot's rates are the table fetched for
\* the snapshot's baseCurrency, by the call that wrote baseCurrency and
\* lastUpdated.
C2_NoTornSnapshot ==
  ~Falsy(Cache.rates) =>
    /\ Cache.rates.base = Cache.baseCurrency
    /\ Cache.rates.gen = stamp[currencyCache]

\* C3: a handler that reads the cache after updateCache(b) returned finds
\* baseCurrency = b; a conversion takes its pivot rates from a table
\* expressed against USD and /api/rates answers with the requested base.
C3_ReadsRequestedBase ==
  (UsesCache(last.call) /\ last.branch # "none" /\ last.failed = "none") =>
    /\ last.base = UpdateBase(last.call)
    /\ last.call.kind \in {"convert", "bulk"} => last.usdRates.base = "USD"
    /\ last.call.kind = "rates" =>
         /\ last.resp.body.base = UpdateBase(last.call)
         /\ last.resp.body.rates.base = UpdateBase(last.call)

\* C4: a call whose upstream fetch fails leaves the four fields of the
\* snapshot as they were and its request is answered with a failure.
C4_FailedFetchLeavesCache ==
  [][\A r \in Reqs :
       (Leaving(r) /\ last'.failed # "none") =>
         /\ currencyCache' = currencyCache
         /\ heap'[currencyCache'] = heap[currencyCache]
         /\ ~last'.resp.success
         /\ last'.resp.status \in {400, 500}]_vars

\* C4 witness: the rate fetch of a base switch failed on a populated cache
C4_Witness ==
  /\ last.failed = "rates"
  /\ last.branch = "switch"
  /\ ~Falsy(Cache.currencies)

\* C6: a call for another base on a populated, unexpired snapshot issues one
\* rate fetch and no currency-list fetch; when that fetch succeeds the
\* snapshot has the fetched rates, the requested base and the call's time,
\* and the currencies it had.
C6_BaseSwitch ==
  [][\A r \in Reqs :
       /\ (Arriving(r) /\ Fresh(Cache, clock')
             /\ Cache.baseCurrency # UpdateBase(call'[r])) =>
            /\ rateFetch' = [rateFetch EXCEPT ![r] = Pending]
            /\ curFetch' = curFetch
       /\ (pc[r] = "awaitRates" /\ Leaving(r) /\ last'.failed = "none") =>
            /\ Cache'.rates = RatesData(UpdateBase(call[r]), callGen[r])
            /\ Cache'.baseCurrency = UpdateBase(call[r])
            /\ Cache'.lastUpdated = now[r]
            /\ Cache'.currencies = Cache.currencies]_vars

\* a request arrives in this step; the request that arrives
Arrived == nreqs' = nreqs + 1
ArrivedCall ==
  IF \E r \in Reqs : Arriving(r) THEN call'[CHOOSE r \in Reqs : Arriving(r)]
  ELSE last'.call

\* a request is answered in this step, without or after a suspension
AnsweredAtOnce == Arrived /\ ~\E r \in Reqs : Arriving(r)
Answered == AnsweredAtOnce \/ \E r \in Reqs : Leaving(r)

\* C5: of calls made one after another, a call with the snapshot's base that
\* finds the snapshot no older than the window issues no fetch and leaves
\* the snapshot as it is; the call that finds no snapshot issues one
\* currency-list fetch and one rate fetch.
C5_CacheHit ==
  [][(Arrived /\ UsesCache(ArrivedCall) /\ PreError(ArrivedCall) = "") =>
       /\ (Fresh(Cache, clock') /\ Cache.baseCurrency = UpdateBase(ArrivedCall)) =>
            /\ UNCHANGED <<fetchVars, cacheVars>>
            /\ AnsweredAtOnce
       /\ Falsy(Cache.currencies) =>
            \E r \in Reqs : /\ curFetch' = [curFetch EXCEPT ![r] = Pending]
                            /\ rateFetch' = [rateFetch EXCEPT ![r] = Pending]]_vars

\* C5 witness: the third request is answered from the snapshot the first one
\* fetched, at an age of exactly the window
C5_Witness ==
  /\ last.branch = "hit"
  /\ nreqs = 3
  /\ stamp[currencyCache] = 1
  /\ clock - Cache.lastUpdated = CACHE_EXPIRATION

\* an amount that parseFloat does not turn into a number
Unparsable(a) == parseFloat(a).kind = "nan"

\* a bulk request that got past updateCache
BulkAnswered ==
  /\ last.call.kind = "bulk"
  /\ last.branch # "none"
  /\ last.failed = "none"

\* C7: a bulk request with a valid source currency reports success with one
\* entry per key of amounts: an error entry for a key that is no currency
\* code or whose amount is unparsable, a conversion entry for any other
\* key, each the entry the key gets when it is sent alone.
C7_BulkIsolation ==
  (BulkAnswered /\ last.call.from \in Codes) =>
    /\ last.resp.success
    /\ DOMAIN last.resp.body.results
         = {last.call.amounts[i][1] : i \in 1..Len(last.call.amounts)}
    /\ \A i \in 1..Len(last.call.amounts) :
         LET k == last.call.amounts[i][1]
             a == last.call.amounts[i][2]
             alone == [last.call EXCEPT !.amounts = <<<<k, a>>>>]
         IN /\ last.resp.body.results[k].tag
                 = IF k \notin Codes \/ Unparsable(a) THEN "error" ELSE "conversion"
            /\ last.resp.body.results[k]
                 = AfterUpdate(alone, Cache).resp.body.results[k]

\* C8: a bulk request whose source currency is no key of the currencies
\* mapping fails as a whole with a validation failure and carries no results.
C8_BulkInvalidSource ==
  (last.call.kind = "bulk" /\ last.call.from \notin Codes /\ last.failed = "none") =>
    /\ ~last.resp.success
    /\ last.resp.status = 400
    /\ last.resp.body = NoBody

ValidationErrors == {"Amount must be a number", "Invalid request format",
                     "Invalid currency code", "Invalid source currency"}
ValidationFailure(resp) == ~resp.success /\ resp.error \in ValidationErrors

\* C9 as claimed: a conversion request that ends in a validation failure
\* leaves the cache snapshot and the history store as they were.
C9_ValidationLeavesState ==
  [][(Answered /\ last'.call.kind \in {"convert", "bulk"}
        /\ ValidationFailure(last'.resp)) =>
       /\ currencyCache' = currencyCache
       /\ Cache' = Cache
       /\ conversionHistoryStore' = conversionHistoryStore]_vars

\* C9 as amended: such a request never changes the history store; it leaves
\* the cache snapshot as it was, and issues no fetch, when the failure is a
\* non-numeric amount or a malformed body, or when the request finds a
\* fresh snapshot with base USD.
C9_ValidationLeavesHistory ==
  [][(Answered /\ last'.call.kind \in {"convert", "bulk"}
        /\ ValidationFailure(last'.resp)) =>
       /\ conversionHistoryStore' = conversionHistoryStore
       /\ (\/ last'.resp.error \in {"Amount must be a number", "Invalid request format"}
           \/ AnsweredAtOnce /\ Fresh(Cache, clock') /\ Cache.baseCurrency = "USD") =>
            /\ currencyCache' = currencyCache
            /\ Cache' = Cache
            /\ UNCHANGED fetchVars]_vars

\* C9 witness: an invalid currency code is refused on a fresh USD snapshot
\* while the history store holds a record
C9_Witness ==
  /\ last.call.kind = "convert"
  /\ last.resp.error = "Invalid currency code"
  /\ last.branch = "hit"
  /\ conversionHistoryStore # EmptyStore

\* C10: a single conversion fails with a validation failure when its amount
\* does not parse as a finite number, and succeeds only for a finite amount.
C10_FiniteAmount ==
  (last.call.kind = "convert" /\ last.failed = "none") =>
    /\ parseFloat(last.call.amount).kind # "num" =>
         /\ ~last.resp.success
         /\ last.resp.error = "Amount must be a number"
         /\ last.resp.body = NoBody
    /\ last.resp.success => parseFloat(last.call.amount).kind = "num"

\* C11: a successful conversion of a currency to itself answers rate 1
\* exactly and a result equal to the amount.
C11_IdentityConversion ==
  (last.call.kind = "convert" /\ last.call.from = last.call.to
     /\ last.resp.success) =>
    /\ last.resp.body.rate = One
    /\ last.resp.body.result = last.resp.body.amount

\* the user of the request the latest step answered
LastUser == UserIdOf(last.call)
StoredList(store, u) == IF u \in DOMAIN store THEN store[u] ELSE <<>>
Min(a, b) == IF a < b THEN a ELSE b

\* C12: every list in the history store has at most 20 records.
C12_HistoryCap ==
  \A u \in DOMAIN conversionHistoryStore :
    Len(conversionHistoryStore[u]) <= HISTORY_LIMIT

\* C12 witness: a list of 20 records took one more record
C12_Witness ==
  /\ "u1" \in DOMAIN conversionHistoryStore
  /\ Len(conversionHistoryStore["u1"]) = HISTORY_LIMIT
  /\ conversionHistoryStore["u1"][1].conversion = HISTORY_LIMIT + 1
  /\ last.call.kind = "histAppend"

\* a successful append / a list request was served in this step
AppendedNow == last'.call.kind = "histAppend" /\ last'.resp.success /\ nreqs' # nreqs
ListedNow == last'.call.kind = "histGet" /\ nreqs' # nreqs

\* C13: a successful append puts its record in front of the user's list,
\* keeps the records the list had in their order and drops only the oldest
\* when the list had 20; the numbered series of n appends since the last
\* clear is stored as its newest min(n, 20) records, newest first, and a list
\* request of a user with a list returns that list.
C13_OrderAndEviction ==
  /\ []("u1" \in DOMAIN conversionHistoryStore =>
          LET list == conversionHistoryStore["u1"]
          IN /\ Len(list) = Min(list[1].conversion, HISTORY_LIMIT)
             /\ \A i \in 1..Len(list) : list[i].conversion = list[1].conversion - i + 1)
  /\ [][/\ AppendedNow =>
             LET u == UserIdOf(last'.call)
                 old == StoredList(conversionHistoryStore, u)
                 new == conversionHistoryStore'[u]
             IN /\ Len(new) = Min(Len(old) + 1, HISTORY_LIMIT)
                /\ new[1].conversion = last'.call.conversion
                /\ \A i \in 2..Len(new) : new[i] = old[i - 1]
        /\ (ListedNow /\ UserIdOf(last'.call) \in DOMAIN conversionHistoryStore) =>
             /\ last'.resp.success
             /\ last'.resp.body.history
                  = Array(conversionHistoryStore[UserIdOf(last'.call)])]_vars

\* C13 witness: after 25 appends the list request returns records 25 down to 6
C13_Witness ==
  /\ last.call.kind = "histGet"
  /\ LastUser = "u1"
  /\ last.resp.body.history.kind = "array"
  /\ Len(last.resp.body.history.items) = HISTORY_LIMIT
  /\ last.resp.body.history.items[1].conversion = 25
  /\ last.resp.body.history.items[HISTORY_LIMIT].conversion = 6

\* C14: a list request of a user without a list succeeds with the empty
\* sequence, and a clear request succeeds and leaves the user without a list.
C14_ListAndClearOfNoHistory ==
  /\ (last.call.kind = "histGet" /\ LastUser \notin DOMAIN conversionHistoryStore) =>
       /\ last.resp.success
       /\ last.resp.body.history = Array(<<>>)
  /\ last.call.kind = "histClear" =>
       /\ last.resp.success
       /\ LastUser \notin DOMAIN conversionHistoryStore

\* C15: a history request changes the list of its own user only, and a
\* successful append adds exactly its record, in front, to what the list held
\* (up to the cap), whatever requests came before it.
C15_AppendsAtomicAndIndependent ==
  [][nreqs' # nreqs /\ last'.call.kind \in {"histAppend", "histGet", "histClear"} =>
       LET u == UserIdOf(last'.call)
       IN /\ \A v \in (DOMAIN conversionHistoryStore
                         \cup DOMAIN conversionHistoryStore') \ {u} :
                /\ v \in DOMAIN conversionHistoryStore
                /\ v \in DOMAIN conversionHistoryStore'
                /\ conversionHistoryStore'[v] = conversionHistoryStore[v]
          /\ (last'.call.kind = "histAppend" /\ last'.resp.success) =>
                /\ Len(conversionHistoryStore'[u])
                     = Min(Len(StoredList(conversionHistoryStore, u)) + 1, HISTORY_LIMIT)
                /\ conversionHistoryStore'[u][1]
                     = [conversion |-> last'.call.conversion, timestamp |-> clock']]_vars

\* C15 witness: u1's list received more than 20 records while u2 keeps a list
C15_Witness ==
  /\ "u2" \in DOMAIN conversionHistoryStore
  /\ Len(conversionHistoryStore["u2"]) >= 1
  /\ "u1" \in DOMAIN conversionHistoryStore
  /\ conversionHistoryStore["u1"][1].conversion > HISTORY_LIMIT
  /\ last.call.kind = "histAppend"
  /\ LastUser = "u1"

\* no field of the snapshot is set / every field is set
Absent(obj) ==
  /\ Falsy(obj.currencies)
  /\ Falsy(obj.rates)
  /\ obj.baseCurrency = NullStr
  /\ obj.lastUpdated = NullTime
Populated(obj) ==
  /\ ~Falsy(obj.currencies)
  /\ ~Falsy(obj.rates)
  /\ obj.baseCurrency # NullStr
  /\ obj.lastUpdated # NullTime

\* C16: in every reachable state the snapshot is entirely absent or fully
\* populated.
C16_AbsentOrPopulated == Absent(Cache) \/ Populated(Cache)

\* C16 witness: the full refresh of an expired snapshot failed while another
\* call is suspended
C16_Witness ==
  /\ last.branch = "cold"
  /\ last.failed # "none"
  /\ Populated(Cache)
  /\ \E r \in Reqs : pc[r] # "idle"

\* C17: a call starts a full refresh, with both fetches issued together,
\* exactly when it finds no snapshot or finds now - lastUpdated greater than
\* the window; and a call that returns without a failure leaves a snapshot
\* whose lastUpdated is no more than the window before the call's own now.
C17_ExpiryPolicy ==
  [][/\ \A r \in Reqs :
          Arriving(r) =>
            /\ pc'[r] = "awaitAll"
                 <=> (Absent(Cache) \/ now'[r] - Cache.lastUpdated > CACHE_EXPIRATION)
            /\ pc'[r] = "awaitAll" =>
                 curFetch'[r] = Pending /\ rateFetch'[r] = Pending
     /\ (AnsweredAtOnce /\ last'.branch = "hit") =>
          /\ Populated(Cache)
          /\ clock' - Cache.lastUpdated <= CACHE_EXPIRATION
          /\ clock' - Cache'.lastUpdated <= CACHE_EXPIRATION
     /\ \A r \in Reqs :
          (Leaving(r) /\ last'.failed = "none") =>
            now[r] - Cache'.lastUpdated <= CACHE_EXPIRATION]_vars

\* C17 witness: a call found a populated snapshot one past the window and is
\* suspended in a full refresh
C17_Witness ==
  \E r \in Reqs :
    /\ pc[r] = "awaitAll"
    /\ Populated(Cache)
    /\ now[r] - Cache.lastUpdated = CACHE_EXPIRATION + 1

\* C19: no step makes the snapshot's lastUpdated smaller.
C19_LastUpdatedMonotonic ==
  [][Cache'.lastUpdated >= Cache.lastUpdated]_vars

\* the entry a bulk answer holds for the i-th item of its request
BulkResult(i) == last.resp.body.results[last.call.amounts[i][1]]

\* C18: a bulk request calls updateCache once, so it issues at most one fetch
\* of each kind, and the entries of its answer are all computed from the one
\* snapshot the handler found when updateCache returned.
C18_BulkOneSnapshot ==
  /\ \A r \in Reqs :
       (call[r].kind = "bulk" /\ pc[r] # "idle") =>
         /\ pc[r] = "awaitAll" => curFetch[r] # NoFetch /\ rateFetch[r] # NoFetch
         /\ pc[r] = "awaitRates" => curFetch[r] = NoFetch /\ rateFetch[r] = Pending
  /\ (last.call.kind = "bulk" /\ last.resp.success) =>
       /\ last.branch \in {"cold", "switch", "hit"}
       /\ last.usdRates = Cache.rates
       /\ \A i \in 1..Len(last.call.amounts) :
            BulkResult(i) =
              BulkEntry(Cache.currencies, Cache.rates,
                        IF last.call.from = "USD" THEN One
                        ELSE Div(One, Lookup(Cache.rates, last.call.from)),
                        last.call.amounts[i][1], last.call.amounts[i][2])

\* C18 witness: a bulk request of three items was answered after its own
\* rate fetch while another request is suspended in a refresh
C18_Witness ==
  /\ last.call.kind = "bulk"
  /\ last.resp.success
  /\ last.branch = "switch"
  /\ Len(last.call.amounts) = 3
  /\ \E r \in Reqs : pc[r] = "awaitAll"

\* C20: a request that is suspended in updateCache is eventually answered,
\* given that its fetches settle; it gets no response when it suspends and
\* its response, a success or a failure, in the step it leaves; a request
\* that does not suspend is answered in the step it arrives.
C20_EveryRequestAnswered ==
  /\ \A r \in Reqs : (pc[r] # "idle") ~> (pc[r] = "idle")
  /\ [][/\ \A r \in Reqs :
             /\ Arriving(r) => last' = NoLast
             /\ Leaving(r) =>
                  /\ last'.call = call[r]
                  /\ last'.resp.status \in {200, 400, 500}
        /\ AnsweredAtOnce =>
             /\ last'.call # NoCall
             /\ last'.resp.status \in {200, 400, 500}]_vars

\* C20 witness: with every slot taken by a suspended request, one of them was
\* answered with a failure and the others still wait
C20_Witness ==
  /\ last.failed # "none"
  /\ last.resp.status \in {400, 500}
  /\ Cardinality({r \in Reqs : pc[r] # "idle"}) = NumReqs - 1

====
